---------------------------- MODULE Spec2Model ----------------------------
(***************************************************************************)
(* A model of caiostoduto/primality-test-comparison: the AKS,              *)
(* Miller-Rabin and trial-division primality tests, the Newton integer     *)
(* square root, the bit-packed sieve of Eratosthenes and the `test`        *)
(* command that runs the tests on one number.                              *)
(*                                                                         *)
(* Machine words.  TLC's integers are 32 bits wide, so a u64 of the        *)
(* program is modelled by a word of WordBits bits and a u128 by a word of  *)
(* twice that width.  Every u64 operation of the program that is not       *)
(* checked or widened is modelled with its wrap-around and reports an      *)
(* overflow.                                                               *)
(*                                                                         *)
(* Floating point.  An f64 of the program is modelled by what the          *)
(* conversion to an integer yields.  floor(log2 n), floor(sqrt n) and      *)
(* round(n^(1/b)) are computed exactly in integers (f64 is exact on them   *)
(* for n < 2^52).  ceil(log2(n)^2) and floor(sqrt(phi) * log2 n) are       *)
(* bracketed by fixed-point lower and upper bounds of FracBits fractional  *)
(* bits; where the two bounds disagree the model takes either value.       *)
(***************************************************************************)
EXTENDS Integers, Sequences, FiniteSets, TLC

(***************************************************************************)
(* Bounds of the model.                                                    *)
(***************************************************************************)
\* Width of the modelled u64 (the program's is 64).
WordBits == 15
\* Largest number handed to the `test` command.
MaxN == 2000
\* Largest number on which the `test` command runs the AKS test.
MaxAksN == 1300
\* Largest number on which the AKS test runs its stage 5 (it is cut there
\* on a larger one).
MaxStage5N == 47
\* Largest r at which the unbounded search of find_smallest_r is cut.
MaxR == 250

\* Largest number handed to find_smallest_r called on its own.
MaxFindN == 277
\* Largest n, r and a handed to check_polynomial_congruence called on its own.
MaxCongruenceN == 13
MaxCongruenceR == 6
MaxCongruenceA == 4
\* How many numbers of the upper part of the word range are handed to
\* check_polynomial_congruence, less one.
MaxHighN == 2
\* newton_sqrt_integer called on its own is handed 0..MaxSqrtN and the
\* MaxSqrtTop + 1 largest words.
MaxSqrtN == 2000
MaxSqrtTop == 64
\* sieve is handed 0..MaxSieveN and the MaxSieveTop + 1 largest words.
MaxSieveN == 130
MaxSieveTop == 1

\* Bits of a word of the sieve's bitmap (the bitmap is modelled at its full
\* width, each word by the set of the positions of its set bits).
Bits == 64

U64_MAX == 2^WordBits - 1

\* Resolution of the fixed-point brackets that model f64 values.
FracBits == 12
Scale == 2^FracBits

(***************************************************************************)
(* Mathematical reference definitions (what the claims are stated          *)
(* against; none of them is taken from the code).                          *)
(***************************************************************************)
Divides(d, m) == m % d = 0

IsPrimeNumber(m) == m >= 2 /\ \A d \in 2..(m - 1) : ~Divides(d, m)

Primes == {p \in 0..(MaxN + 1) : IsPrimeNumber(p)}

\* x^e <= cap, decided without computing a power larger than cap.
RECURSIVE PowLeq(_, _, _)
PowLeq(x, e, cap) ==
    IF e = 0 THEN 1 <= cap
    ELSE IF x = 0 THEN TRUE
    ELSE PowLeq(x, e - 1, cap \div x)

\* x^e = m, decided without computing a power larger than m.
RECURSIVE PowEq(_, _, _)
PowEq(x, e, m) ==
    IF e = 0 THEN m = 1
    ELSE m % x = 0 /\ PowEq(x, e - 1, m \div x)

\* m = x^e for some x >= 2 and e >= 2.
IsPerfectPower(m) ==
    \E x \in 2..m : x * x <= m /\ \E e \in 2..(2 * WordBits) : PowEq(x, e, m)

PerfectPowers == {m \in 2..(MaxN + 1) : IsPerfectPower(m)}

\* The primes up to m, in ascending order.
PrimesUpTo(m) == SelectSeq([k \in 1..(m + 1) |-> k - 1], IsPrimeNumber)

Coprime(x, y) == \A d \in 2..y : ~(Divides(d, x) /\ Divides(d, y))

\* x^e mod m, from x^e = (x^(e div 2))^2 * x^(e mod 2).
RECURSIVE PowModRef(_, _, _)
PowModRef(x, e, m) ==
    IF e = 0 THEN 1 % m
    ELSE LET h == PowModRef(x, e \div 2, m)
         IN IF e % 2 = 0 THEN (h * h) % m ELSE (((h * h) % m) * (x % m)) % m

\* k is the multiplicative order of x modulo m: the least k >= 1 with
\* x^k = 1 (mod m).
IsOrder(k, x, m) ==
    /\ k >= 1
    /\ PowModRef(x, k, m) = 1 % m
    /\ \A j \in 1..(k - 1) : PowModRef(x, j, m) # 1 % m

\* m is coprime to x and the order of x modulo m is greater than bound.
OrderExceeds(x, m, bound) ==
    /\ Coprime(x, m)
    /\ \A k \in 1..bound : PowModRef(x, k, m) # 1 % m

\* The binomial coefficient C(m, k), by C(m, k) = C(m, k - 1) (m - k + 1) / k.
RECURSIVE Binomial(_, _)
Binomial(m, k) ==
    IF k = 0 THEN 1 ELSE (Binomial(m, k - 1) * (m - k + 1)) \div k

\* The coefficient of X^i in (X + a)^m reduced modulo (X^r - 1, m): the sum
\* of C(m, k) a^(m - k) over the k congruent to i modulo r (here over those
\* from k on).
RECURSIVE PowerCoeffFrom(_, _, _, _, _)
PowerCoeffFrom(m, r, a, i, k) ==
    IF k > m THEN 0
    ELSE ((IF k % r = i
           THEN ((Binomial(m, k) % m) * PowModRef(a, m - k, m)) % m
           ELSE 0) + PowerCoeffFrom(m, r, a, i, k + 1)) % m

PowerCoeff(m, r, a, i) == PowerCoeffFrom(m, r, a, i, 0)

\* The coefficient of X^i in X^m + a reduced modulo (X^r - 1, m).
TargetCoeff(m, r, a, i) ==
    ((IF i = m % r THEN 1 ELSE 0) + (IF i = 0 THEN a ELSE 0)) % m

\* (X + a)^m = X^m + a modulo (X^r - 1, m).
Congruent(m, r, a) ==
    \A i \in 0..(r - 1) : PowerCoeff(m, r, a, i) = TargetCoeff(m, r, a, i)

(***************************************************************************)
(* Loops.  TLC evaluates a recursive operator on the Java stack, which     *)
(* holds only some hundred levels, so a loop of the program is run by      *)
(* WhileLoop, whose depth is logarithmic in the number of passes.          *)
(***************************************************************************)
\* The value of an expression that TLC is to evaluate once: x stands for it
\* in F.
Let(x, F(_)) == CHOOSE v \in {F(y) : y \in {x}} : TRUE

\* while !Done(s) { s = Body(s) }, for at most 2^k passes: the state in
\* which the loop is left (a state without Done if 2^k passes were not
\* enough).
RECURSIVE WhileLoop(_, _, _, _)
WhileLoop(Done(_), Body(_), s, k) ==
    Let(s, LAMBDA t :
        IF Done(t) THEN t
        ELSE IF k = 0 THEN Body(t)
        ELSE WhileLoop(Done, Body, WhileLoop(Done, Body, t, k - 1), k - 1))

(***************************************************************************)
(* Integer helpers of the floating-point model.                            *)
(***************************************************************************)
CeilDiv(x, y) == (x + y - 1) \div y

\* floor(log2 x) for x >= 1.
FloorLog2(x) == CHOOSE k \in 0..(2 * WordBits + 2) : 2^k <= x /\ x < 2^(k + 1)

\* floor(sqrt x), by bisection on lo <= sqrt x < hi.
RECURSIVE SqrtBisect(_, _, _)
SqrtBisect(x, lo, hi) ==
    IF hi - lo <= 1 THEN lo
    ELSE LET mid == (lo + hi) \div 2
         IN IF mid <= x \div mid THEN SqrtBisect(x, mid, hi)
            ELSE SqrtBisect(x, lo, mid)

FloorSqrt(x) == IF x = 0 THEN 0 ELSE SqrtBisect(x, 1, 46341)

\* The fractional bits of log2(y / Scale) for Scale <= y < 2 * Scale, by
\* repeated squaring; rounding down gives a lower bound, rounding up an
\* upper bound after one unit is added.
RECURSIVE Log2Bits(_, _, _, _)
Log2Bits(y, i, acc, up) ==
    IF i = 0 THEN acc
    ELSE Let(IF up THEN CeilDiv(y * y, Scale) ELSE (y * y) \div Scale,
             LAMBDA sq :
                IF sq >= 2 * Scale
                THEN Log2Bits(IF up THEN CeilDiv(sq, 2) ELSE sq \div 2,
                              i - 1, 2 * acc + 1, up)
                ELSE Log2Bits(sq, i - 1, 2 * acc, up))

\* Scale * log2 x rounded down and up; exact on the powers of two.
Log2Lo(x) ==
    LET k == FloorLog2(x)
    IN k * Scale + Log2Bits((x * Scale) \div 2^k, FracBits, 0, FALSE)

Log2Hi(x) ==
    LET k == FloorLog2(x)
    IN IF x = 2^k THEN k * Scale
       ELSE k * Scale + Log2Bits((x * Scale) \div 2^k, FracBits, 0, TRUE) + 1

\* Scale * sqrt x rounded down and up; exact on the perfect squares.
SqrtLo(x) == FloorSqrt(x * Scale * Scale)

SqrtHi(x) ==
    LET s == FloorSqrt(x * Scale * Scale)
    IN IF s * s = x * Scale * Scale THEN s ELSE s + 1

(***************************************************************************)
(* f64 conversions of the program.                                         *)
(***************************************************************************)
\* The largest f with f^b <= x, by bisection on lo^b <= x < hi^b.
RECURSIVE RootBisect(_, _, _, _)
RootBisect(x, b, lo, hi) ==
    IF hi - lo <= 1 THEN lo
    ELSE LET mid == (lo + hi) \div 2
         IN IF PowLeq(mid, b, x) THEN RootBisect(x, b, mid, hi)
            ELSE RootBisect(x, b, lo, mid)

FloorRoot(x, b) == RootBisect(x, b, 1, x + 1)

\* (n as f64).powf(1.0 / b as f64).round() as u64: the integer nearest to
\* the b-th root of x, i.e. f + 1 iff (f + 1/2)^b <= x.
RoundRoot(x, b) ==
    LET f == FloorRoot(x, b)
    IN IF PowLeq(2 * f + 1, b, (2^b) * x) THEN f + 1 ELSE f

\* ((n as f64).log2().powi(2)).ceil() as u64: every value the bracket of
\* log2 allows (one value wherever the bracket decides the ceiling).
LogNSqSet(x) ==
    CeilDiv(Log2Lo(x) * Log2Lo(x), Scale * Scale)
        .. CeilDiv(Log2Hi(x) * Log2Hi(x), Scale * Scale)

\* A limit without the square root: phi * floor(log2 x).
LimitSetNoSqrt(phi, x) == {phi * FloorLog2(x)}

\* ((phi as f64).sqrt() * (n as f64).log2()).floor() as u64, likewise.
LimitSet(phi, x) ==
    ((SqrtLo(phi) * Log2Lo(x)) \div (Scale * Scale))
        .. ((SqrtHi(phi) * Log2Hi(x)) \div (Scale * Scale))

(***************************************************************************)
(* algorithms/aks.rs: the helper functions.                                *)
(***************************************************************************)
\* An Option<u64>: <<>> is None, <<v>> is Some(v).
None == <<>>
Some(v) == <<v>>

RECURSIVE gcd(_, _)
gcd(a, b) == IF b # 0 THEN gcd(b, a % b) ELSE a

saturating_sub(x, y) == IF x >= y THEN x - y ELSE 0
saturating_add(x, y) == IF x + y > U64_MAX THEN U64_MAX ELSE x + y

\* checked_mul: None when the product does not fit the word.
checked_mul(x, y) ==
    IF y # 0 /\ x > U64_MAX \div y THEN None ELSE Some(x * y)

RECURSIVE pow_checked_loop(_, _, _)
pow_checked_loop(base, exp, result) ==
    IF exp = 0 THEN Some(result)
    ELSE LET r1 == IF exp % 2 = 1 THEN checked_mul(result, base)
                   ELSE Some(result)
             e2 == exp \div 2
             b2 == IF e2 > 0 THEN checked_mul(base, base) ELSE Some(base)
         IN IF r1 = None \/ b2 = None THEN None
            ELSE pow_checked_loop(b2[1], e2, r1[1])

pow_checked(base, exp) == pow_checked_loop(base, exp, 1)

\* (n as f64).log2() as u32, with the exponent loop one exponent short.
max_b_short(n) == FloorLog2(n) - 1

\* (n as f64).log2() as u32
max_b(n) == FloorLog2(n)

is_perfect_power(n) ==
    IF n = 1 THEN TRUE
    ELSE \E b \in 2..max_b(n) :
            LET a == RoundRoot(n, b)
            IN \E candidate \in
                    {saturating_sub(a, 1), a, saturating_add(a, 1)} :
                   candidate > 1 /\ pow_checked(candidate, b) = Some(n)

\* A u64 product or sum that is neither checked nor widened: the value the
\* release build computes, and whether it left the word (a debug build
\* panics there).
wrapping(v) == v % (U64_MAX + 1)
overflows(v) == v > U64_MAX

\* multiplicative_order.  The loop state: k and current, with n_mod and r;
\* overflow is whether some current * n_mod left the word.
multiplicative_order_done(s) == s.k > s.r \/ s.current = 1

\* The loop body with current squared in place of current * n_mod.
multiplicative_order_body_squaring(s) ==
    [s EXCEPT !.k = s.k + 1,
              !.current = wrapping(s.current * s.current) % s.r,
              !.overflow = s.overflow \/ overflows(s.current * s.current)]

multiplicative_order_body(s) ==
    [s EXCEPT !.k = s.k + 1,
              !.current = wrapping(s.current * s.n_mod) % s.r,
              !.overflow = s.overflow \/ overflows(s.current * s.n_mod)]

\* value is what is returned, in_loop whether the return is the one inside
\* the loop.
multiplicative_order(n, r) ==
    Let(WhileLoop(multiplicative_order_done, multiplicative_order_body,
                  [n_mod |-> n % r, r |-> r, k |-> 1,
                   current |-> n % r, overflow |-> FALSE], 8),
        LAMBDA s :
            IF s.k > s.r
            THEN [value |-> r, in_loop |-> FALSE, overflow |-> s.overflow]
            ELSE [value |-> s.k, in_loop |-> TRUE, overflow |-> s.overflow])

\* while n_mut % p == 0 { n_mut /= p }
RECURSIVE euler_phi_strip(_, _)
euler_phi_strip(n_mut, p) ==
    IF n_mut % p = 0 THEN euler_phi_strip(n_mut \div p, p) ELSE n_mut

\* value is what is returned, overflow whether some p * p left the word.
RECURSIVE euler_phi_loop(_, _, _, _)
euler_phi_loop(result, n_mut, p, ovf) ==
    IF wrapping(p * p) <= n_mut
    THEN LET p2 == p + (IF p = 2 THEN 1 ELSE 2)
         IN IF n_mut % p = 0
            THEN euler_phi_loop(result - result \div p,
                                euler_phi_strip(n_mut, p), p2,
                                ovf \/ overflows(p * p))
            ELSE euler_phi_loop(result, n_mut, p2, ovf \/ overflows(p * p))
    ELSE [value |-> IF n_mut > 1 THEN result - result \div n_mut ELSE result,
          overflow |-> ovf \/ overflows(p * p)]

euler_phi(n) == euler_phi_loop(n, n, 2, FALSE)

\* A pass that stores the sum without reducing it modulo n.
poly_mul_step_unreduced(a, b, r, n, pos, i, acc) ==
    LET j == (pos + r - i) % r
    IN IF a[i] = 0 \/ b[j] = 0 THEN acc
       ELSE LET coeff == (a[i] * b[j]) % n
                sum == acc.value + coeff
            IN [value |-> wrapping(sum),
                overflow |-> acc.overflow \/ overflows(sum)]

\* poly_mul_mod, one pass: what pass i of the outer loop does to result[pos].
\* In pass i exactly one j, (pos - i) mod r, adds to result[pos].  The
\* product is taken in u128, the sum in u64.  acc.value is result[pos],
\* acc.overflow whether a sum has left the word.
poly_mul_step(a, b, r, n, pos, i, acc) ==
    LET j == (pos + r - i) % r
    IN IF a[i] = 0 \/ b[j] = 0 THEN acc
       ELSE LET coeff == (a[i] * b[j]) % n
                sum == acc.value + coeff
            IN [value |-> wrapping(sum) % n,
                overflow |-> acc.overflow \/ overflows(sum)]

\* result[pos] after the passes lo, ..., hi - 1, in that order.
RECURSIVE poly_mul_coeff(_, _, _, _, _, _, _, _)
poly_mul_coeff(a, b, r, n, pos, lo, hi, acc) ==
    IF hi - lo = 1 THEN poly_mul_step(a, b, r, n, pos, lo, acc)
    ELSE LET mid == (lo + hi) \div 2
         IN Let(poly_mul_coeff(a, b, r, n, pos, lo, mid, acc),
                LAMBDA c : poly_mul_coeff(a, b, r, n, pos, mid, hi, c))

\* result[lo], ..., result[hi - 1] after all the passes, as a sequence.
RECURSIVE poly_mul_coeffs(_, _, _, _, _, _)
poly_mul_coeffs(a, b, r, n, lo, hi) ==
    IF hi - lo = 1
    THEN <<poly_mul_coeff(a, b, r, n, lo, 0, r,
                          [value |-> 0, overflow |-> FALSE])>>
    ELSE LET mid == (lo + hi) \div 2
         IN poly_mul_coeffs(a, b, r, n, lo, mid)
                \o poly_mul_coeffs(a, b, r, n, mid, hi)

\* poly is the returned vector (indexed from 0), overflow whether some
\* result[pos] + coeff left the word.
poly_mul_mod(a, b, r, n) ==
    Let(poly_mul_coeffs(a, b, r, n, 0, r), LAMBDA cs :
        [poly |-> [pos \in 0..(r - 1) |-> cs[pos + 1].value],
         overflow |-> \E q \in 1..r : cs[q].overflow])

\* vec![0u64; r] with the given entries set.
zero_poly(r) == [i \in 0..(r - 1) |-> 0]

\* The expected coefficient with the X^n term left out.
expected_coeff_constant(n, r, a, i) == IF i = 0 THEN a % n ELSE 0

\* The coefficient check_polynomial_congruence expects at position i.
expected_coeff(n, r, a, i) ==
    IF i = 0 THEN a % n
    ELSE IF i = n % r THEN 1
    ELSE 0

(***************************************************************************)
(* algorithms/miller_rabin.rs                                              *)
(***************************************************************************)
\* The witness list cut down to one witness.
witnesses_single == <<7>>

witnesses == <<2, 3, 5, 7, 11, 13, 17, 19, 23, 29, 31, 37>>

RECURSIVE mod_pow_loop(_, _, _, _)
mod_pow_loop(base128, exp, m128, result) ==
    IF exp > 0
    THEN mod_pow_loop((base128 * base128) % m128, exp \div 2, m128,
                      IF exp % 2 = 1 THEN (result * base128) % m128
                      ELSE result)
    ELSE result

mod_pow(base, exp, m) ==
    IF m = 1 THEN 0 ELSE mod_pow_loop(base % m, exp, m, 1)

mod_sqr(x, n) == (x * x) % n

\* for _ in 0..r - 1 { x = mod_sqr(x, n); if x == n - 1 { return true } }
RECURSIVE miller_rabin_squarings(_, _, _)
miller_rabin_squarings(n, x, left) ==
    IF left = 0 THEN FALSE
    ELSE LET x2 == mod_sqr(x, n)
         IN IF x2 = n - 1 THEN TRUE
            ELSE miller_rabin_squarings(n, x2, left - 1)

miller_rabin_test(n, witness, d, r) ==
    LET x == mod_pow(witness, d, n)
    IN IF x = 1 \/ x = n - 1 THEN TRUE
       ELSE miller_rabin_squarings(n, x, r - 1)

\* while d & 1 == 0 { d >>= 1; r += 1 }
RECURSIVE miller_rabin_decompose(_, _)
miller_rabin_decompose(d, r) ==
    IF d % 2 = 0 THEN miller_rabin_decompose(d \div 2, r + 1)
    ELSE [d |-> d, r |-> r]

RECURSIVE miller_rabin_witness_loop(_, _, _)
miller_rabin_witness_loop(n, dr, w) ==
    IF w > Len(witnesses) THEN TRUE
    ELSE IF n = witnesses[w] THEN TRUE
    ELSE IF ~miller_rabin_test(n, witnesses[w], dr.d, dr.r) THEN FALSE
    ELSE miller_rabin_witness_loop(n, dr, w + 1)

miller_rabin_is_prime(n) ==
    IF n <= 1 THEN FALSE
    ELSE IF n <= 3 THEN TRUE
    ELSE IF n % 2 = 0 \/ n % 3 = 0 THEN FALSE
    ELSE IF n < 9 THEN TRUE
    ELSE miller_rabin_witness_loop(n, miller_rabin_decompose(n - 1, 0), 1)

(***************************************************************************)
(* algorithms/trial_division_newton.rs, algorithms/trial_division_sqrt.rs  *)
(***************************************************************************)
\* The first estimate rounded down.
newton_first_floor(n) == n \div 2

\* let mut b: u128 = (n_u128 + 1) / 2
newton_first(n) == (n + 1) \div 2

\* A u128 sum: the value the release build computes, and whether it left
\* the double word (stated by the upper word, the double word's largest
\* value being out of the reach of TLC's integers).
wrapping128(v) ==
    (((v \div (U64_MAX + 1)) % (U64_MAX + 1)) * (U64_MAX + 1))
        + (v % (U64_MAX + 1))
overflows128(v) == v \div (U64_MAX + 1) > U64_MAX

\* One pass of the Newton loop: b = (a * a + n) / (2 * a), in u128.
newton_next(a, n) == wrapping128(a * a + n) \div (2 * a)

\* while b < a { a = b; b = (a * a + n) / (2 * a) }
newton_done(s) == ~(s.b < s.a)

newton_body(s) == [s EXCEPT !.a = s.b, !.b = newton_next(s.b, s.n)]

newton_sqrt_integer(n) ==
    WhileLoop(newton_done, newton_body,
              [n |-> n, a |-> n, b |-> newton_first(n)], 6).a

\* while i <= sqrt { if n % i == 0 { return false }  i += 2 }  return true
\* The loop state: i, with n and sqrt; divisor is whether the loop was left
\* by return false.
\* The loop condition with i < sqrt.
trial_division_done_strict(s) == s.divisor \/ ~(s.i < s.sqrt)

trial_division_done(s) == s.divisor \/ ~(s.i <= s.sqrt)

trial_division_body(s) ==
    IF s.n % s.i = 0 THEN [s EXCEPT !.divisor = TRUE]
    ELSE [s EXCEPT !.i = s.i + 2]

trial_division_loop(n, i, sqrt) ==
    ~WhileLoop(trial_division_done, trial_division_body,
               [n |-> n, i |-> i, sqrt |-> sqrt, divisor |-> FALSE],
               WordBits).divisor

trial_division_newton_is_prime(n) ==
    IF n <= 1 THEN FALSE
    ELSE IF n % 2 = 0 THEN n = 2
    ELSE trial_division_loop(n, 3, newton_sqrt_integer(n))

trial_division_sqrt_is_prime(n) ==
    IF n <= 1 THEN FALSE
    ELSE IF n % 2 = 0 THEN n = 2
    ELSE trial_division_loop(n, 3, FloorSqrt(n))

(***************************************************************************)
(* algorithms/trial_division.rs (named by algorithms/mod.rs): the naive    *)
(* variant, which takes the floating-point square root again in every      *)
(* pass of the loop.                                                       *)
(***************************************************************************)
trial_division_naive_done(s) == s.divisor \/ ~(s.i <= FloorSqrt(s.n))

trial_division_naive_loop(n, i) ==
    ~WhileLoop(trial_division_naive_done, trial_division_body,
               [n |-> n, i |-> i, sqrt |-> 0, divisor |-> FALSE],
               WordBits).divisor

trial_division_is_prime(n) ==
    IF n <= 1 THEN FALSE
    ELSE IF n % 2 = 0 THEN n = 2
    ELSE trial_division_naive_loop(n, 3)

(***************************************************************************)
(* State.                                                                  *)
(***************************************************************************)
VARIABLES
    entry,      \* the function or command that was called
    number,     \* its u64 argument
    pc,         \* where control is
    ret,        \* <<>> until the call under way returns, then <<value>>
    aks,        \* aks.rs: n, r, a, log_n_sq, limit of is_prime,
                \* find_smallest_r and check_polynomial_congruence; stage is
                \* the stage whose return statement ended is_prime, order
                \* what the last call multiplicative_order(n, order_r)
                \* returned, in_loop whether every such call returned from
                \* inside its loop
    ppm,        \* aks.rs: exp, base, result of poly_pow_mod
    overflow,   \* whether an unchecked u64 operation has left the word
    todo,       \* cli/test.rs: the algorithms option, then those still to run
    results,    \* cli/test.rs: what each algorithm returned
    stdout,     \* the lines printed so far
    nwt,        \* trial_division_newton.rs: n, a, b of newton_sqrt_integer
    sv,         \* sieve_of_eratosthenes.rs: the locals of sieve; idx is
                \* the index of the last get_bit or clear_bit, if any
    running,    \* cli/benchmark.rs: the AtomicBool the timer clears
    primes_vector,  \* cli/benchmark.rs: the Vec behind the Mutex
    mutex,      \* cli/benchmark.rs: None, or Some(i) while worker i holds
                \* the guard of primes_vector
    thread,     \* cli/benchmark.rs: for each worker i its position and
                \* its locals k, j, local_primes; c is the index in
                \* [k - 1, k + 1] of the candidate to test next; calls
                \* lists the calls of the test function it has made,
                \* buffered the numbers it has pushed to local_primes and
                \* after_stop counts the calls it made after the timer
                \* cleared running
    bench       \* cli/benchmark.rs: algorithm, parallelism_count, the
                \* number of handles spawned and joined, final_count and
                \* the position of the timer thread

benchVars == <<running, primes_vector, mutex, thread, bench>>

vars == <<entry, number, pc, ret, aks, ppm, overflow, todo, results, stdout,
          nwt, sv, benchVars>>

NoAks == [n |-> 0, r |-> 0, a |-> 0, log_n_sq |-> 0, limit |-> 0,
          stage |-> 0, order |-> 0, order_r |-> 0, in_loop |-> TRUE]
NoPpm == [exp |-> 0, base |-> <<>>, result |-> <<>>]
NoNwt == [n |-> 0, a |-> 0, b |-> 0]
NoSv == [n |-> 0, is_prime |-> <<>>, sqrt |-> 0, i |-> 0, j |-> 0,
         idx |-> <<>>]
NoBench == [algorithm |-> "", parallelism_count |-> 0, handles |-> 0,
            joined |-> 0, final_count |-> <<>>, timer |-> "unspawned"]

\* The state of the benchmark when no benchmark is run.
InitNoBench ==
    /\ running = FALSE
    /\ primes_vector = <<>>
    /\ mutex = <<>>
    /\ thread = <<>>
    /\ bench = NoBench

\* PrimeAlgorithm, in the order of the enum (PrimeAlgorithm::iter()).
PrimeAlgorithm == <<"aks", "miller-rabin", "trial-division",
                    "trial-division-newton", "trial-division-sqrt">>

\* as_algorithm_fn for the tests that are modelled as one step.
as_algorithm_fn(alg, n) ==
    CASE alg = "miller-rabin" -> miller_rabin_is_prime(n)
      [] alg = "trial-division" -> trial_division_is_prime(n)
      [] alg = "trial-division-newton" -> trial_division_newton_is_prime(n)
      [] alg = "trial-division-sqrt" -> trial_division_sqrt_is_prime(n)

\* What an unchecked u64 operation can do: nothing special when it stays in
\* the word; when it leaves the word a debug build panics and a release
\* build goes on with the wrapped value.
Outcomes(ovf) == IF ovf THEN {"panic", "wrap"} ELSE {"ok"}

(***************************************************************************)
(* cli/test.rs: handle_cli runs run_test for each algorithm in turn.       *)
(***************************************************************************)
InitTest ==
    /\ entry = "test"
    /\ number \in 0..MaxN
    /\ pc = "handle_cli"
    /\ ret = <<>>
    /\ aks = NoAks
    /\ ppm = NoPpm
    /\ overflow = FALSE
       \* algorithms: None, or Some list given on the command line
    /\ todo \in {None, Some(Tail(PrimeAlgorithm))}
    /\ todo = None => number <= MaxAksN
    /\ results = [alg \in {} |-> <<>>]
    /\ stdout = <<>>
    /\ nwt = NoNwt
    /\ sv = NoSv
    /\ InitNoBench

\* handle_cli up to its loop: without a list every algorithm is run.
HandleCli ==
    /\ entry = "test" /\ pc = "handle_cli"
    /\ IF todo = None
       THEN /\ stdout' = Append(stdout,
                                "No algorithm specified. Running all algorithms.")
            /\ todo' = PrimeAlgorithm
       ELSE /\ stdout' = stdout
            /\ todo' = todo[1]
    /\ pc' = "for_alg"
    /\ UNCHANGED <<benchVars, entry, number, ret, aks, ppm, overflow, results,
                   nwt, sv>>

\* run_test up to the call of the algorithm; the call itself when the
\* algorithm is one step of the model.
RunTest ==
    /\ entry = "test" /\ pc = "for_alg" /\ todo # <<>>
    /\ stdout' = Append(stdout, "Testing if number is prime")
    /\ IF Head(todo) = "aks"
       THEN /\ pc' = "is_prime"
            /\ aks' = [NoAks EXCEPT !.n = number]
            /\ ret' = <<>>
       ELSE /\ pc' = "returned"
            /\ aks' = aks
            /\ ret' = <<as_algorithm_fn(Head(todo), number)>>
    /\ UNCHANGED <<benchVars, entry, number, ppm, overflow, todo, results,
                   nwt, sv>>

\* run_test after the call: the result is printed.
RunTestDone ==
    /\ entry = "test" /\ pc = "returned"
    /\ results' = (Head(todo) :> ret) @@ results
    /\ stdout' = stdout \o <<IF ret[1] THEN "Result: number is prime"
                             ELSE "Result: number is composite",
                             "Time taken">>
    /\ todo' = Tail(todo)
    /\ ret' = <<>>
    /\ pc' = "for_alg"
    /\ UNCHANGED <<benchVars, entry, number, aks, ppm, overflow, nwt, sv>>

(***************************************************************************)
(* algorithms/aks.rs: is_prime, by stage.                                  *)
(***************************************************************************)
\* A return statement of is_prime, at the given stage.
AksReturn(value, stage) ==
    /\ ret' = <<value>>
    /\ pc' = "returned"
    /\ aks' = [aks EXCEPT !.stage = stage]

\* n <= 1, then stage 1, the perfect-power check.
AksStart ==
    /\ pc = "is_prime"
    /\ IF aks.n <= 1 THEN AksReturn(FALSE, 0)
       ELSE IF is_perfect_power(aks.n) THEN AksReturn(FALSE, 1)
       ELSE /\ pc' = "find_smallest_r"
            /\ UNCHANGED <<ret, aks>>
    /\ UNCHANGED <<benchVars, entry, number, ppm, overflow, todo, results,
                   stdout, nwt, sv>>

\* Stage 2: find_smallest_r(n) up to its loop.
CallFindSmallestR ==
    /\ pc = "find_smallest_r"
    /\ \E l \in LogNSqSet(aks.n) :
         aks' = [aks EXCEPT !.log_n_sq = l, !.r = 2]
    /\ pc' = "for_r"
    /\ UNCHANGED <<benchVars, entry, number, ret, ppm, overflow, todo,
                   results, stdout, nwt, sv>>

\* One pass of for r in 2.. (cut when r passes MaxR).
FindSmallestRStep ==
    /\ pc = "for_r" /\ aks.r <= MaxR
    /\ IF gcd(aks.n, aks.r) # 1
       THEN /\ aks' = [aks EXCEPT !.r = aks.r + 1]
            /\ UNCHANGED <<pc, ret, overflow>>
       ELSE \E order \in {multiplicative_order(aks.n, aks.r)} :
               \E o \in Outcomes(order.overflow) :
                 /\ overflow' = (overflow \/ order.overflow)
                 /\ IF o = "panic"
                    THEN pc' = "panicked" /\ UNCHANGED <<ret, aks>>
                    ELSE IF order.value > aks.log_n_sq
                    THEN /\ aks' = [aks EXCEPT
                                       !.order = order.value,
                                       !.order_r = aks.r,
                                       !.in_loop = aks.in_loop /\ order.in_loop]
                         /\ IF entry = "find_smallest_r"
                            THEN pc' = "returned" /\ ret' = <<aks.r>>
                            ELSE pc' = "stage3" /\ ret' = ret
                    ELSE /\ aks' = [aks EXCEPT
                                       !.r = aks.r + 1,
                                       !.order = order.value,
                                       !.order_r = aks.r,
                                       !.in_loop = aks.in_loop /\ order.in_loop]
                         /\ UNCHANGED <<pc, ret>>
    /\ UNCHANGED <<benchVars, entry, number, ppm, todo, results, stdout, nwt,
                   sv>>

\* Stage 3: for a in 2..=r.min(n - 1), a factor of n ends the test.
Stage3 ==
    /\ pc = "stage3"
    /\ IF \E a \in 2..(IF aks.r < aks.n - 1 THEN aks.r ELSE aks.n - 1) :
            LET g == gcd(a, aks.n) IN g > 1 /\ g < aks.n
       THEN AksReturn(FALSE, 3)
       ELSE /\ pc' = "stage4"
            /\ UNCHANGED <<ret, aks>>
    /\ UNCHANGED <<benchVars, entry, number, ppm, overflow, todo, results,
                   stdout, nwt, sv>>

\* Stage 4, and the limit of stage 5.
Stage4 ==
    /\ pc = "stage4"
    /\ IF aks.n <= aks.r
       THEN AksReturn(TRUE, 4) /\ overflow' = overflow
       ELSE IF aks.n > MaxStage5N
       THEN pc' = "cut" /\ UNCHANGED <<ret, aks, overflow>>
       ELSE \E phi \in {euler_phi(aks.r)} :
               \E limit \in LimitSet(phi.value, aks.n) :
               \E o \in Outcomes(phi.overflow) :
                 /\ overflow' = (overflow \/ phi.overflow)
                 /\ aks' = [aks EXCEPT !.limit = limit, !.a = 1]
                 /\ pc' = IF o = "panic" THEN "panicked" ELSE "stage5"
                 /\ ret' = ret
    /\ UNCHANGED <<benchVars, entry, number, ppm, todo, results, stdout, nwt,
                   sv>>

\* check_polynomial_congruence up to the loop of poly_pow_mod: poly is
\* X + a, result is 1, base is poly, exp is n.
CallCheckPolynomialCongruence ==
    /\ ppm' = [exp |-> aks.n,
               base |-> [zero_poly(aks.r) EXCEPT ![0] = aks.a % aks.n,
                                                 ![1] = 1],
               result |-> [zero_poly(aks.r) EXCEPT ![0] = 1]]
    /\ pc' = "poly_pow_mod"

\* Stage 5: for a in 1..=limit.
Stage5 ==
    /\ pc = "stage5"
    /\ IF aks.a > aks.limit
       THEN AksReturn(TRUE, 5) /\ ppm' = ppm
       ELSE CallCheckPolynomialCongruence /\ UNCHANGED <<ret, aks>>
    /\ UNCHANGED <<benchVars, entry, number, overflow, todo, results, stdout,
                   nwt, sv>>

\* One pass of the loop of poly_pow_mod.
PolyPowModStep ==
    /\ pc = "poly_pow_mod" /\ ppm.exp > 0
    /\ \E m1 \in {IF ppm.exp % 2 = 1
                    THEN poly_mul_mod(ppm.result, ppm.base, aks.r, aks.n)
                    ELSE [poly |-> ppm.result, overflow |-> FALSE]},
          m2 \in {IF ppm.exp \div 2 > 0
                    THEN poly_mul_mod(ppm.base, ppm.base, aks.r, aks.n)
                    ELSE [poly |-> ppm.base, overflow |-> FALSE]} :
         \E o \in Outcomes(m1.overflow \/ m2.overflow) :
            /\ overflow' = (overflow \/ m1.overflow \/ m2.overflow)
            /\ ppm' = [exp |-> ppm.exp \div 2,
                       base |-> m2.poly, result |-> m1.poly]
            /\ pc' = IF o = "panic" THEN "panicked" ELSE "poly_pow_mod"
    /\ UNCHANGED <<benchVars, entry, number, ret, aks, todo, results, stdout,
                   nwt, sv>>

\* The end of check_polynomial_congruence: the result is compared with the
\* expected coefficients; in is_prime a mismatch returns false and a match
\* goes on to the next a.
Compare ==
    /\ pc = "poly_pow_mod" /\ ppm.exp = 0
    /\ LET ok == \A i \in 0..(aks.r - 1) :
                    ppm.result[i] = expected_coeff(aks.n, aks.r, aks.a, i)
       IN IF entry = "check_polynomial_congruence"
          THEN pc' = "returned" /\ ret' = <<ok>> /\ aks' = aks
          ELSE IF ok
          THEN /\ pc' = "stage5"
               /\ aks' = [aks EXCEPT !.a = aks.a + 1]
               /\ ret' = ret
          ELSE AksReturn(FALSE, 5)
    /\ UNCHANGED <<benchVars, entry, number, ppm, overflow, todo, results,
                   stdout, nwt, sv>>

AksNext ==
    \/ AksStart
    \/ CallFindSmallestR
    \/ FindSmallestRStep
    \/ Stage3
    \/ Stage4
    \/ Stage5
    \/ PolyPowModStep
    \/ Compare

Next == HandleCli \/ RunTest \/ RunTestDone \/ AksNext

Init == InitTest

Spec == Init /\ [][Next]_vars

\* The program is one thread that runs on until it returns or panics; the
\* numbers are those on which the model runs every stage of the AKS test.
InitFair == InitTest /\ number <= MaxStage5N

FairSpec == InitFair /\ [][Next]_vars /\ WF_vars(Next)

(***************************************************************************)
(* algorithms/aks.rs: find_smallest_r and check_polynomial_congruence      *)
(* called on their own, as the unit tests call them.                       *)
(***************************************************************************)
InitFindSmallestR ==
    /\ entry = "find_smallest_r"
    /\ number \in 2..MaxFindN
    /\ pc = "find_smallest_r"
    /\ aks = [NoAks EXCEPT !.n = number]

\* The numbers of the upper part of the word range (a product of two
\* residues of a larger number is out of the reach of TLC's integers).
HighN == (U64_MAX - U64_MAX \div 3)..(U64_MAX - U64_MAX \div 3 + MaxHighN)

InitCongruence(N) ==
    /\ entry = "check_polynomial_congruence"
    /\ number \in N
    /\ pc = "check_polynomial_congruence"
    /\ \E r \in 2..MaxCongruenceR, a \in 0..MaxCongruenceA :
         aks = [NoAks EXCEPT !.n = number, !.r = r, !.a = a]

InitRest ==
    /\ ret = <<>>
    /\ ppm = NoPpm
    /\ overflow = FALSE
    /\ todo = <<>>
    /\ results = [alg \in {} |-> <<>>]
    /\ stdout = <<>>
    /\ nwt = NoNwt
    /\ sv = NoSv
    /\ InitNoBench

InitAks ==
    /\ InitFindSmallestR \/ InitCongruence(2..MaxCongruenceN)
    /\ InitRest

\* check_polynomial_congruence called on its own.
CheckPolynomialCongruence ==
    /\ pc = "check_polynomial_congruence"
    /\ CallCheckPolynomialCongruence
    /\ UNCHANGED <<benchVars, entry, number, ret, aks, overflow, todo,
                   results, stdout, nwt, sv>>

NextAks ==
    \/ CallFindSmallestR
    \/ FindSmallestRStep
    \/ CheckPolynomialCongruence
    \/ PolyPowModStep
    \/ Compare

SpecAks == InitAks /\ [][NextAks]_vars /\ WF_vars(NextAks)

\* check_polynomial_congruence on numbers of the upper part of the word
\* range, as stage 5 of is_prime calls it on such a number.
InitOverflow == InitCongruence(HighN) /\ InitRest

NextOverflow == CheckPolynomialCongruence \/ PolyPowModStep \/ Compare

SpecOverflow == InitOverflow /\ [][NextOverflow]_vars /\ WF_vars(NextOverflow)

(***************************************************************************)
(* algorithms/trial_division_newton.rs: newton_sqrt_integer called on its  *)
(* own, one pass of its loop at a time.                                    *)
(***************************************************************************)
InitSqrt ==
    /\ entry = "newton_sqrt_integer"
    /\ number \in (0..MaxSqrtN) \cup ((U64_MAX - MaxSqrtTop)..U64_MAX)
    /\ pc = "newton_sqrt_integer"
    /\ aks = NoAks
    /\ ret = <<>>
    /\ ppm = NoPpm
    /\ overflow = FALSE
    /\ todo = <<>>
    /\ results = [alg \in {} |-> <<>>]
    /\ stdout = <<>>
    /\ nwt = NoNwt
    /\ sv = NoSv
    /\ InitNoBench

\* let mut a = n_u128; let mut b = (n_u128 + 1) / 2;
NewtonStart ==
    /\ pc = "newton_sqrt_integer"
    /\ nwt' = [n |-> number, a |-> number, b |-> newton_first(number)]
    /\ pc' = "while"
    /\ UNCHANGED <<benchVars, entry, number, ret, aks, ppm, overflow, todo,
                   results, stdout, sv>>

\* One pass of while b < a: a division by zero panics in every build; the
\* sum a * a + n is a u128.
NewtonStep ==
    /\ pc = "while" /\ nwt.b < nwt.a
    /\ IF 2 * nwt.b = 0
       THEN /\ pc' = "panicked"
            /\ nwt' = [nwt EXCEPT !.a = nwt.b]
            /\ overflow' = overflow
       ELSE LET ovf == overflows128(nwt.b * nwt.b + nwt.n)
            IN \E o \in Outcomes(ovf) :
                 /\ overflow' = (overflow \/ ovf)
                 /\ pc' = IF o = "panic" THEN "panicked" ELSE "while"
                 /\ nwt' = [nwt EXCEPT !.a = nwt.b,
                                       !.b = newton_next(nwt.b, nwt.n)]
    /\ UNCHANGED <<benchVars, entry, number, ret, aks, ppm, todo, results,
                   stdout, sv>>

\* The loop is left: a as u64 is returned.
NewtonReturn ==
    /\ pc = "while" /\ ~(nwt.b < nwt.a)
    /\ ret' = <<wrapping(nwt.a)>>
    /\ pc' = "returned"
    /\ UNCHANGED <<benchVars, entry, number, aks, ppm, overflow, todo,
                   results, stdout, nwt, sv>>

NextSqrt == NewtonStart \/ NewtonStep \/ NewtonReturn

SpecSqrt == InitSqrt /\ [][NextSqrt]_vars /\ WF_vars(NextSqrt)

(***************************************************************************)
(* algorithms/sieve_of_eratosthenes.rs: sieve, one pass of its loops at a  *)
(* time.                                                                   *)
(***************************************************************************)
\* ((n as usize + 1) + 63) / 64: value is the size computed, overflow
\* whether one of the two sums left the word.
sieve_size(n) ==
    [value |-> wrapping(wrapping(n + 1) + (Bits - 1)) \div Bits,
     overflow |-> overflows(n + 1) \/ overflows(wrapping(n + 1) + (Bits - 1))]

get_bit(bits, idx) == (idx % Bits) \in bits[idx \div Bits + 1]

clear_bit(bits, idx) ==
    [bits EXCEPT ![idx \div Bits + 1] = @ \ {idx % Bits}]

\* (0..=n).filter(|&index| get_bit(&is_prime, index)).collect()
sieve_collect(bits, n) ==
    SelectSeq([k \in 1..(n + 1) |-> k - 1], LAMBDA index : get_bit(bits, index))

InitSieve ==
    /\ entry = "sieve"
    /\ number \in (0..MaxSieveN) \cup ((U64_MAX - MaxSieveTop)..U64_MAX)
    /\ pc = "sieve"
    /\ aks = NoAks
    /\ ret = <<>>
    /\ ppm = NoPpm
    /\ overflow = FALSE
    /\ todo = <<>>
    /\ results = [alg \in {} |-> <<>>]
    /\ stdout = <<>>
    /\ nwt = NoNwt
    /\ sv = [NoSv EXCEPT !.n = number]
    /\ InitNoBench

\* sieve up to its loop: the early return for n < 2, or the bitmap with the
\* bits of 0 and 1 cleared (an index past the bitmap's end panics: with a
\* size wrapped to 0 that is the index 0 of clear_bit(&mut is_prime, 0)).
SieveStart ==
    /\ pc = "sieve"
    /\ IF sv.n < 2
       THEN /\ stdout' = Append(stdout,
                                "There are no prime numbers less than 2.")
            /\ ret' = << <<>> >>
            /\ pc' = "returned"
            /\ UNCHANGED <<sv, overflow>>
       ELSE LET size == sieve_size(sv.n)
            IN \E o \in Outcomes(size.overflow) :
                 /\ overflow' = (overflow \/ size.overflow)
                 /\ UNCHANGED <<stdout, ret>>
                 /\ IF o = "panic"
                    THEN pc' = "panicked" /\ sv' = sv
                    ELSE IF size.value = 0
                    THEN /\ pc' = "panicked"
                         /\ sv' = [sv EXCEPT !.idx = Some(0)]
                    ELSE /\ pc' = "for_i"
                         /\ sv' = [sv EXCEPT
                                !.is_prime =
                                    clear_bit(
                                        clear_bit([w \in 1..size.value |->
                                                      0..(Bits - 1)], 0), 1),
                                !.sqrt = FloorSqrt(sv.n),
                                !.i = 2,
                                !.idx = Some(1)]
    /\ UNCHANGED <<benchVars, entry, number, aks, ppm, todo, results, nwt>>

\* One pass of for i in 2..=sqrt, up to its inner loop; after the last pass
\* the set bits are collected and returned.
SieveOuter ==
    /\ pc = "for_i"
    /\ IF sv.i <= sv.sqrt
       THEN /\ IF get_bit(sv.is_prime, sv.i)
               THEN /\ sv' = [sv EXCEPT !.j = sv.i * sv.i,
                                        !.idx = Some(sv.i)]
                    /\ pc' = "for_j"
               ELSE /\ sv' = [sv EXCEPT !.i = sv.i + 1, !.idx = Some(sv.i)]
                    /\ pc' = pc
            /\ ret' = ret
       ELSE /\ ret' = <<sieve_collect(sv.is_prime, sv.n)>>
            /\ pc' = "returned"
            /\ sv' = [sv EXCEPT !.idx = Some(sv.n)]
    /\ UNCHANGED <<benchVars, entry, number, aks, ppm, overflow, todo,
                   results, stdout, nwt>>

\* One pass of for j in (i * i..=n).step_by(i).
SieveInner ==
    /\ pc = "for_j"
    /\ IF sv.j <= sv.n
       THEN /\ sv' = [sv EXCEPT !.is_prime = clear_bit(sv.is_prime, sv.j),
                                 !.j = sv.j + sv.i,
                                 !.idx = Some(sv.j)]
            /\ pc' = pc
       ELSE /\ sv' = [sv EXCEPT !.i = sv.i + 1]
            /\ pc' = "for_i"
    /\ UNCHANGED <<benchVars, entry, number, ret, aks, ppm, overflow, todo,
                   results, stdout, nwt>>

NextSieve == SieveStart \/ SieveOuter \/ SieveInner

SpecSieve == InitSieve /\ [][NextSieve]_vars /\ WF_vars(NextSieve)

(***************************************************************************)
(* The properties.                                                         *)
(***************************************************************************)
Variants == {"aks", "miller-rabin", "trial-division-newton",
             "trial-division-sqrt"}

C2_MillerRabinExact ==
    "miller-rabin" \in DOMAIN results
        => results["miller-rabin"] = <<number \in Primes>>

C2_Witness ==
    /\ number = 1729
    /\ "miller-rabin" \in DOMAIN results
    /\ results["miller-rabin"] = <<FALSE>>

AksReturned == entry = "test" /\ pc = "returned" /\ Head(todo) = "aks"

\* C3: the AKS test terminates and, whichever stage returns, returns true
\* exactly on the primes.
C3_AksDecides ==
    /\ [](AksReturned => ret = <<aks.n \in Primes>>)
    /\ (pc = "is_prime") ~> AksReturned

C3_Witness ==
    /\ AksReturned
    /\ aks.stage = 5
    /\ aks.n = MaxStage5N
    /\ ret = <<TRUE>>

\* C4: sieve never aborts and returns exactly the primes up to its bound,
\* in ascending order (the empty sequence for a bound below 2).
C4_SieveReturnsPrimes ==
    entry = "sieve"
        => /\ pc # "panicked"
           /\ pc = "returned" => ret = <<PrimesUpTo(number)>>

NewtonExact ==
    /\ pc # "panicked"
    /\ ~overflow
    /\ pc = "returned"
          => /\ ret[1] * ret[1] <= number
             /\ number < (ret[1] + 1) * (ret[1] + 1)

\* C5: newton_sqrt_integer terminates, never divides by zero or leaves the
\* double-width word, and returns the exact floor of the square root, up to
\* the largest word.
C5_NewtonSqrt == []NewtonExact /\ <>(pc = "returned")

C5_Witness ==
    /\ entry = "newton_sqrt_integer"
    /\ number = U64_MAX
    /\ pc = "returned"
    /\ ret = <<FloorSqrt(U64_MAX)>>

\* C6: no unchecked u64 operation of the AKS test leaves the word.
C6_NoOverflow == overflow = FALSE

\* C7: a core call prints nothing, whatever its input.
C7_NoOutput == entry = "sieve" => stdout = <<>>

AksPastStage1 == entry = "test" /\ aks.n >= 2 /\ pc # "is_prime"

\* C8: is_perfect_power is true exactly on the perfect powers, and on those
\* is_prime returns false at stage 1, with no modulus searched and no later
\* stage run.
C8_PerfectPowerStage1 ==
    AksPastStage1
        => /\ aks.stage = 1 <=> aks.n \in PerfectPowers
           /\ aks.stage = 1
                 => /\ aks.r = 0 /\ aks.order_r = 0 /\ aks.limit = 0
                    /\ IF "aks" \in DOMAIN results
                       THEN results["aks"] = <<FALSE>>
                       ELSE pc = "returned" /\ ret = <<FALSE>>

C8_Witness ==
    /\ AksReturned
    /\ aks.n = 27
    /\ aks.stage = 1
    /\ ret = <<FALSE>>

\* C9: check_polynomial_congruence(n, r, a) returns true exactly when
\* (X + a)^n = X^n + a modulo (X^r - 1, n).
C9_CongruenceDecided ==
    (entry = "check_polynomial_congruence" /\ pc = "returned")
        => (ret[1] <=> Congruent(aks.n, aks.r, aks.a))

\* What find_smallest_r returns is the least r >= 2 coprime to n at which
\* the order of n exceeds log_n_sq.
FindSmallestRLeast ==
    (entry = "find_smallest_r" /\ pc = "returned")
        => /\ aks.log_n_sq \in LogNSqSet(number)
           /\ ret[1] >= 2
           /\ OrderExceeds(number, ret[1], aks.log_n_sq)
           /\ \A q \in 2..(ret[1] - 1) :
                  ~OrderExceeds(number, q, aks.log_n_sq)
           /\ number = 2 => ret = <<3>>
           /\ number = 3 => ret = <<5>>
           /\ number = 4 => ret = <<11>>
           /\ number = 5 => ret = <<17>>
           /\ number = 31 => ret = <<29>>

\* What multiplicative_order returned last is the order, returned from
\* inside the loop.
OrderTrue ==
    (entry = "find_smallest_r" /\ aks.order_r # 0)
        => /\ aks.in_loop
           /\ IsOrder(aks.order, number, aks.order_r)

\* C10: find_smallest_r terminates and returns the least r >= 2 coprime to
\* n with the order of n modulo r greater than ceil(log2(n)^2); every call
\* of multiplicative_order it makes returns the order from inside its loop.
C10_FindSmallestR ==
    /\ [](FindSmallestRLeast /\ OrderTrue)
    /\ (entry = "find_smallest_r") ~> (pc = "returned")

C10_Witness ==
    /\ entry = "find_smallest_r"
    /\ number = 31
    /\ pc = "returned"
    /\ ret = <<29>>
    /\ aks.order = 28

\* A vector of exactly r coefficients, each in [0, n).
IsPolynomial(p, r, n) ==
    /\ DOMAIN p = 0..(r - 1)
    /\ \A i \in DOMAIN p : p[i] >= 0 /\ p[i] < n

\* C11: throughout a polynomial-congruence check the base and the result of
\* poly_pow_mod (the initial X + a and 1, and every vector poly_mul_mod
\* returns) have exactly r coefficients, each in [0, n).
C11_PolynomialShape ==
    pc = "poly_pow_mod"
        => /\ IsPolynomial(ppm.base, aks.r, aks.n)
           /\ IsPolynomial(ppm.result, aks.r, aks.n)

C11_Witness ==
    /\ entry = "check_polynomial_congruence"
    /\ pc = "poly_pow_mod"
    /\ aks.n = MaxCongruenceN /\ aks.r = MaxCongruenceR
    /\ ppm.exp = 0
    /\ \E i \in DOMAIN ppm.result : ppm.result[i] > 1

(***************************************************************************)
(* cli/benchmark.rs: run_benchmark for one algorithm.  The main thread     *)
(* spawns the timer and the workers, joins the workers and reads the       *)
(* count; the timer clears running; each worker tests its candidates       *)
(* until it reads running as false, then moves local_primes into           *)
(* primes_vector under the mutex and returns.  A step of a worker is one   *)
(* load of running, one call of the test function, the lock, or the        *)
(* critical section up to the return.  The clock (timestamp, elapsed) and  *)
(* the Parquet file are left out.                                          *)
(***************************************************************************)
MaxWorkers == 2
MaxIter == 2

coreVars == <<entry, number, ret, aks, ppm, overflow, todo, results, nwt, sv>>

\* The algorithms the benchmark is run with.
BenchAlgorithms == {"miller-rabin", "trial-division-sqrt"}

\* A worker before thread::spawn.
NoThread == [pc |-> "unspawned", k |-> 0, j |-> 0, c |-> 0,
             local_primes |-> <<>>, calls |-> <<>>, buffered |-> <<>>,
             after_stop |-> 0]

InitBench ==
    /\ entry = "benchmark"
    /\ number = 0
    /\ pc = "run_benchmark"
    /\ ret = <<>>
    /\ aks = NoAks
    /\ ppm = NoPpm
    /\ overflow = FALSE
    /\ todo = <<>>
    /\ results = [alg \in {} |-> <<>>]
    /\ stdout = <<>>
    /\ nwt = NoNwt
    /\ sv = NoSv
    /\ running = FALSE
    /\ primes_vector = <<>>
    /\ mutex = None
    /\ \E alg \in BenchAlgorithms, p \in 1..MaxWorkers :
         /\ bench = [NoBench EXCEPT !.algorithm = alg,
                                    !.parallelism_count = p]
         /\ thread = [i \in 0..(p - 1) |-> NoThread]

\* run_benchmark up to the call of is_prime_in_parallel: a duration that
\* does not parse ends the process; otherwise the shared state is created
\* and the timer thread spawned.
RunBenchmark ==
    /\ entry = "benchmark" /\ pc = "run_benchmark"
    /\ \E parsed \in BOOLEAN :
         IF parsed
         THEN /\ stdout' = Append(stdout, "Running benchmark...")
              /\ running' = TRUE
              /\ primes_vector' = <<>>
              /\ mutex' = None
              /\ bench' = [bench EXCEPT !.timer = "sleeping"]
              /\ pc' = "spawn"
         ELSE /\ pc' = "exit"
              /\ UNCHANGED <<stdout, running, primes_vector, mutex, bench>>
    /\ UNCHANGED <<coreVars, thread>>

\* The timer thread, when its sleep ends.
Timer ==
    /\ bench.timer = "sleeping"
    /\ stdout' = Append(stdout, "Time's up! Stopping all threads...")
    /\ running' = FALSE
    /\ bench' = [bench EXCEPT !.timer = "done"]
    /\ UNCHANGED <<coreVars, pc, primes_vector, mutex, thread>>

\* The locals of worker i when its closure starts: worker 0 starts with
\* for k in 2..3, the others with for j in 0...
spawned(i) ==
    [NoThread EXCEPT !.pc = IF i = 0 THEN "small_check" ELSE "loop_check",
                     !.k = IF i = 0 THEN 2 ELSE 0]

\* is_prime_in_parallel: the workers are spawned and the handles returned
\* (a worker that runs before the later ones are spawned behaves as one
\* that runs while they have not yet taken a step).
Spawn ==
    /\ entry = "benchmark" /\ pc = "spawn"
    /\ thread' = [i \in 0..(bench.parallelism_count - 1) |-> spawned(i)]
    /\ bench' = [bench EXCEPT !.handles = bench.parallelism_count]
    /\ pc' = "join"
    /\ UNCHANGED <<coreVars, stdout, running, primes_vector, mutex>>

\* A join that returns before the worker has moved its buffer.
finished_on_flush(t) == t.pc \in {"lock_small", "lock_loop", "exited"}

\* handle.join() returns once the worker has returned.
finished(t) == t.pc = "exited"

\* run_benchmark: one pass of for handle in handles.
Join ==
    /\ entry = "benchmark" /\ pc = "join"
    /\ bench.joined < bench.parallelism_count
    /\ finished(thread[bench.joined])
    /\ bench' = [bench EXCEPT !.joined = bench.joined + 1]
    /\ UNCHANGED <<coreVars, pc, stdout, running, primes_vector, mutex,
                   thread>>

\* run_benchmark after the joins: the count is read under the lock and
\* printed.
FinalCount ==
    /\ entry = "benchmark" /\ pc = "join"
    /\ bench.joined = bench.parallelism_count
    /\ mutex = None
    /\ bench' = [bench EXCEPT !.final_count = Some(Len(primes_vector))]
    /\ stdout' = Append(stdout, "Final Results: Primes found: "
                                    \o ToString(Len(primes_vector)))
    /\ pc' = "returned"
    /\ UNCHANGED <<coreVars, running, primes_vector, mutex, thread>>

\* A candidate k that leaves the partition: the stride is 6, not
\* 6 * parallelism_count.
candidate_k_shared(i, j, parallelism_count) == (i + 1) * 6 + j * 6

\* let k = (i + 1) * 6 + j * parallelism_count * 6
candidate_k(i, j, parallelism_count) ==
    (i + 1) * 6 + j * parallelism_count * 6

\* [k - 1, k + 1]
candidates(k) == <<k - 1, k + 1>>

\* The call of the test function on x by a worker with locals t, which
\* pushes p to local_primes when the test accepts x.
test_and_push(t, x, p) ==
    LET ok == as_algorithm_fn(bench.algorithm, x)
    IN [t EXCEPT
          !.local_primes = IF ok THEN Append(@, p) ELSE @,
          !.buffered = IF ok THEN Append(@, p) ELSE @,
          !.calls = Append(@, <<x, ok>>),
          !.after_stop = IF running THEN @ ELSE @ + 1]

\* Worker 0, for k in 2..3: the load of running.
SmallCheck(i) ==
    /\ thread[i].pc = "small_check"
    /\ thread' = [thread EXCEPT
                     ![i].pc = IF running THEN "small_test" ELSE "lock_small"]
    /\ UNCHANGED <<coreVars, pc, stdout, running, primes_vector, mutex,
                   bench>>

\* Worker 0, for k in 2..3: the test of k, which records k - 1.
SmallTest(i) ==
    /\ thread[i].pc = "small_test"
    /\ LET t == test_and_push(thread[i], thread[i].k, thread[i].k - 1)
       IN thread' = [thread EXCEPT
                        ![i] = [t EXCEPT
                                   !.k = @ + 1,
                                   !.pc = IF t.k + 1 < 3 THEN "small_check"
                                                         ELSE "loop_check"]]
    /\ UNCHANGED <<coreVars, pc, stdout, running, primes_vector, mutex,
                   bench>>

\* for j in 0..: the load of running, and k when the worker goes on (the
\* model stops a worker that has made MaxIter passes until running is
\* false).
LoopCheck(i) ==
    /\ thread[i].pc = "loop_check"
    /\ IF running
       THEN /\ thread[i].j < MaxIter
            /\ thread' = [thread EXCEPT
                  ![i].k = candidate_k(i, thread[i].j,
                                       bench.parallelism_count),
                  ![i].c = 0,
                  ![i].pc = "loop_test"]
       ELSE thread' = [thread EXCEPT ![i].pc = "lock_loop"]
    /\ UNCHANGED <<coreVars, pc, stdout, running, primes_vector, mutex,
                   bench>>

\* for candidate in [k - 1, k + 1]: the test of one candidate.
LoopTest(i) ==
    /\ thread[i].pc = "loop_test"
    /\ LET candidate == candidates(thread[i].k)[thread[i].c + 1]
           t == test_and_push(thread[i], candidate, candidate)
       IN thread' = [thread EXCEPT
                        ![i] = IF t.c + 1 < Len(candidates(t.k))
                               THEN [t EXCEPT !.c = @ + 1]
                               ELSE [t EXCEPT !.c = 0, !.j = @ + 1,
                                              !.pc = "loop_check"]]
    /\ UNCHANGED <<coreVars, pc, stdout, running, primes_vector, mutex,
                   bench>>

\* primes_vector.lock().unwrap(), on either way out.
Lock(i) ==
    /\ thread[i].pc \in {"lock_small", "lock_loop"}
    /\ mutex = None
    /\ mutex' = Some(i)
    /\ thread' = [thread EXCEPT
                     ![i].pc = IF thread[i].pc = "lock_small"
                               THEN "drain_small" ELSE "drain_loop"]
    /\ UNCHANGED <<coreVars, pc, stdout, running, primes_vector, bench>>

\* The element of primes_vector made of a buffered number.
PrimeResultFinal(p, i) == [number |-> p, thread_id |-> i]

\* What for p in local_primes.drain(..) appends to primes_vector.
drained(local_primes, i) ==
    [q \in 1..Len(local_primes) |-> PrimeResultFinal(local_primes[q], i)]

\* for p in local_primes.drain(..), under the guard, then the return, which
\* drops the guard (the way out of the main loop prints the count first).
Drain(i) ==
    /\ thread[i].pc \in {"drain_small", "drain_loop"}
    /\ primes_vector' = primes_vector \o drained(thread[i].local_primes, i)
    /\ stdout' = IF thread[i].pc = "drain_loop"
                 THEN Append(stdout,
                             "Thread " \o ToString(i)
                                 \o " stopping... (count: "
                                 \o ToString(Len(thread[i].local_primes))
                                 \o ")")
                 ELSE stdout
    /\ mutex' = None
    /\ thread' = [thread EXCEPT ![i].local_primes = <<>>,
                                ![i].pc = "exited"]
    /\ UNCHANGED <<coreVars, pc, running, bench>>

NextBench ==
    \/ RunBenchmark
    \/ Timer
    \/ Spawn
    \/ Join
    \/ FinalCount
    \/ \E i \in DOMAIN thread : SmallCheck(i)
    \/ \E i \in DOMAIN thread : SmallTest(i)
    \/ \E i \in DOMAIN thread : LoopCheck(i)
    \/ \E i \in DOMAIN thread : LoopTest(i)
    \/ \E i \in DOMAIN thread : Lock(i)
    \/ \E i \in DOMAIN thread : Drain(i)

SpecBench == InitBench /\ [][NextBench]_vars


\* The numbers worker i has moved into primes_vector, in order.
Flushed(i) ==
    LET OfWorker(e) == e.thread_id = i
        mine == SelectSeq(primes_vector, OfWorker)
    IN [q \in 1..Len(mine) |-> mine[q].number]

\* C12: a worker pushes to primes_vector only while it holds the mutex; a
\* worker that has returned has moved its whole buffer; and the count is
\* read only when every worker has returned, so that primes_vector then
\* holds every number buffered by any worker exactly once.
C12_FlushExactlyOnce ==
    /\ \A i \in DOMAIN thread :
          /\ thread[i].pc \in {"drain_small", "drain_loop"}
                => mutex = Some(i)
          /\ thread[i].pc = "exited"
                => /\ thread[i].local_primes = <<>>
                   /\ Flushed(i) = thread[i].buffered
    /\ \A q \in DOMAIN primes_vector :
          primes_vector[q].thread_id \in DOMAIN thread
    /\ bench.final_count # None
          => /\ \A i \in DOMAIN thread :
                   /\ thread[i].pc = "exited"
                   /\ Flushed(i) = thread[i].buffered
             /\ bench.final_count = Some(Len(primes_vector))

C12_Witness ==
    /\ entry = "benchmark" /\ pc = "returned"
    /\ bench.parallelism_count = MaxWorkers
    /\ \A i \in DOMAIN thread : Len(thread[i].buffered) >= 2
    /\ bench.final_count = Some(Len(primes_vector))
    /\ \E q \in 2..Len(primes_vector) :
          primes_vector[q].thread_id = 0 /\ primes_vector[q - 1].thread_id # 0


\* C13: once the timer has cleared running, a worker makes at most one
\* further call of the test function before it reads the flag.
C13_OneFurtherCall ==
    \A i \in DOMAIN thread : thread[i].after_stop <= 1


\* The arguments of the calls worker i made in its main loop (worker 0
\* makes its calls on the small primes first).
LoopCalls(i) ==
    LET small == IF i = 0 THEN 1 ELSE 0
        all == thread[i].calls
    IN [q \in 1..(Len(all) - small) |-> all[q + small][1]]

\* The candidates of worker i up to its position: 6m - 1 and 6m + 1 for
\* m = (i + 1) + j * P, for each finished pass j, and those of the pass
\* under way.
RECURSIVE Assigned(_, _, _)
Assigned(i, passes, P) ==
    IF passes = 0 THEN <<>>
    ELSE LET m == (i + 1) + (passes - 1) * P
         IN Assigned(i, passes - 1, P) \o <<6 * m - 1, 6 * m + 1>>

\* The numbers worker i has called the test function on.
Tested(i) == {thread[i].calls[q][1] : q \in DOMAIN thread[i].calls}

\* C14: worker i at pass j tests exactly 6m - 1 and 6m + 1 for
\* m = (i + 1) + j * P; no number is tested by two workers, and, with the
\* worker count of the run, every 6m - 1 and 6m + 1 with m >= 1 belongs to
\* exactly one worker and pass.
C14_PrivateCandidates ==
    LET P == bench.parallelism_count
    IN /\ \A i \in DOMAIN thread :
             LET t == thread[i]
                 done == Assigned(i, t.j, P)
                 now == Assigned(i, t.j + 1, P)
             IN LoopCalls(i)
                  = IF t.pc = "loop_test"
                    THEN SubSeq(now, 1, Len(done) + t.c)
                    ELSE done
       /\ \A i1, i2 \in DOMAIN thread :
             i1 # i2 => Tested(i1) \cap Tested(i2) = {}
       /\ pc = "spawn"
             => \A m \in 1..(P * MaxIter) :
                   \A x \in {6 * m - 1, 6 * m + 1} :
                      Cardinality({w \in (0..(P - 1)) \X (0..(MaxIter - 1)) :
                                      \E c \in 1..2 :
                                         candidates(candidate_k(w[1], w[2],
                                                                P))[c] = x})
                         = 1

C14_Witness ==
    /\ entry = "benchmark"
    /\ bench.parallelism_count = MaxWorkers
    /\ \A i \in DOMAIN thread :
          thread[i].pc = "exited" /\ thread[i].j = MaxIter


\* The numbers on which worker i's calls of the test function returned
\* true.
Accepted(i) ==
    {thread[i].calls[q][1] :
        q \in {q \in DOMAIN thread[i].calls : thread[i].calls[q][2]}}

\* C15: worker 0 tests 2 and 3 before its main loop, and every number in
\* primes_vector is a number on which the test function returned true in
\* the worker that recorded it.
C15_RecordedAccepted ==
    /\ \A q \in DOMAIN primes_vector :
          primes_vector[q].number \in Accepted(primes_vector[q].thread_id)
    /\ \A i \in DOMAIN thread :
          (i = 0 /\ thread[i].pc \in {"loop_check", "loop_test"})
             => \A x \in {2, 3} :
                   \E q \in DOMAIN thread[i].calls : thread[i].calls[q][1] = x


\* is_prime has passed stage 4: it is in stage 5, or the model has cut the
\* run where stage 5 would start.
AksInStage5 ==
    /\ entry = "test"
    /\ pc \in {"stage5", "poly_pow_mod", "cut"}

\* The limit of stage 5 at the present n and r; where the model has cut the
\* run, an upper bound of it: sqrt(phi) * log2(n) is below
\* (floor(sqrt(phi)) + 1) * (floor(log2(n)) + 1).
Stage5Limits ==
    IF pc = "cut"
    THEN {(FloorSqrt(euler_phi(aks.r).value) + 1) * (FloorLog2(aks.n) + 1) - 1}
    ELSE {aks.limit}

\* C16: when is_prime reaches stage 5, 2 <= r < n, r does not divide n and
\* limit < n, so that every a of the loop is below n; the positions 0 and
\* n mod r of the expected coefficients differ and a mod n = a.
C16_Stage5Parameters ==
    AksInStage5
        => /\ 2 <= aks.r /\ aks.r < aks.n
           /\ aks.n % aks.r # 0
           /\ \A limit \in Stage5Limits : limit < aks.n
           /\ pc = "poly_pow_mod"
                 => /\ 1 <= aks.a /\ aks.a <= aks.limit
                    /\ aks.a % aks.n = aks.a
                    /\ expected_coeff(aks.n, aks.r, aks.a, 0) = aks.a
                    /\ expected_coeff(aks.n, aks.r, aks.a, aks.n % aks.r) = 1

C16_Witness ==
    /\ entry = "test"
    /\ pc = "poly_pow_mod"
    /\ aks.n = 31 /\ aks.r = 29
    /\ aks.a = aks.limit
    /\ ppm.exp = 0


\* sieve(n) with n >= 2 is past its first statement.
SieveRunning == entry = "sieve" /\ number >= 2 /\ pc # "sieve"

\* The bitmap exists and the outer loop has finished the values below sv.i.
SieveInLoop == SieveRunning /\ pc \in {"for_i", "for_j", "returned"}

\* The smallest factor above 1 of x >= 2.
SmallestFactor(x) == CHOOSE d \in 2..x : Divides(d, x) /\
                        \A e \in 2..(d - 1) : ~Divides(e, x)

\* The last index read or cleared is at most n and inside the bitmap.
SieveIndexInside ==
    (SieveRunning /\ sv.idx # None)
        => /\ sv.idx[1] <= sv.n
           /\ sv.idx[1] \div Bits + 1 <= Len(sv.is_prime)

\* The cleared bits are those of 0, 1 and of composites up to n.
SieveClearsComposites ==
    SieveInLoop
        => \A x \in 0..(Len(sv.is_prime) * Bits - 1) :
              ~get_bit(sv.is_prime, x)
                 => x <= 1 \/ (x <= sv.n /\ x \notin Primes)

\* The composites whose smallest prime factor the outer loop has finished
\* are cleared.
SieveProgress ==
    SieveInLoop
        => \A x \in 4..sv.n :
              (x \notin Primes /\ SmallestFactor(x) <= sv.i - 1)
                 => ~get_bit(sv.is_prime, x)

\* C17: at every step of sieve(n), n >= 2, only the bits of 0, 1 and of
\* composites up to n are cleared, every index read or cleared is at most n
\* and inside the allocated words, and once the outer loop has finished i
\* every composite up to n with smallest prime factor at most i is cleared.
C17_SieveInvariant ==
    /\ SieveClearsComposites
    /\ SieveIndexInside
    /\ SieveProgress

=============================================================================
